---- MODULE Spec2Model ----
(***************************************************************************)
(* State-machine model of blackroad-websocket-manager                      *)
(* (src/src/main_module.py): the in-memory ConnectionPool, the three       *)
(* SQLite tables behind it, and the module-level operations that work on   *)
(* both (add_connection, remove_connection, broadcast, send_message,       *)
(* heartbeat_check, ConnectionPool.update_heartbeat).                      *)
(*                                                                         *)
(* Time is counted in ticks; TicksPerSecond ticks make one second.         *)
(* datetime.utcnow() has sub-second resolution (one tick here), SQLite's   *)
(* datetime('now') has one-second resolution.                              *)
(* Python's Optional values and SQL NULL are sequences of length 0 or 1.   *)
(***************************************************************************)
EXTENDS Integers, Sequences, FiniteSets, TLC

\* ---------------------------------------------------------------- bounds
MaxTime == 1
MaxRowId == 2
MaxMessages == 2
MaxHeartbeats == 1
TicksPerSecond == 2

\* ---------------------------------------------------------------- inputs
WsIds == {"w1", "w2"}
Agents == {"alice", "bob"}
NoWs == "-"
\* metadata dicts: {}, {"ip": "127.0.0.1"}, {"tags": ("a", "b")} and
\* {"tags": ["a", "b"]}; val is the Python type of the one value.
EmptyDict == [kind |-> "dict", size |-> 0, val |-> "none"]
IpDict == [kind |-> "dict", size |-> 1, val |-> "str"]
TagsTupleDict == [kind |-> "dict", size |-> 1, val |-> "tuple"]
TagsListDict == [kind |-> "dict", size |-> 1, val |-> "list"]
MetaVals == {EmptyDict}
StrPayload == [kind |-> "str", text |-> "hello"]
DictPayload == [kind |-> "dict", text |-> "event"]
Payloads == {StrPayload}
Timeouts == {0, 1}
Latencies == {<<>>, <<5>>}

None == <<>>
Some(v) == <<v>>

VARIABLES pool, connections, seq_connections, messages, heartbeat_log, now, ret

vars == <<pool, connections, seq_connections, messages, heartbeat_log, now, ret>>

\* ------------------------------------------------------- pure conversions
\* datetime.isoformat(): the text of an instant; the empty text stands for
\* any text datetime.fromisoformat() rejects.
isoformat(t) == <<t>>
Malformed == <<>>
fromisoformat_ok(s) == Len(s) = 1
fromisoformat(s) == s[1]

\* SQLite datetime('now'): the current time truncated to whole seconds.
sql_now(t) == (t \div TicksPerSecond) * TicksPerSecond

\* json.dumps / json.loads on the metadata dict: a tuple and a list are both
\* written as a JSON array, and a JSON array is read back as a list.
json_dumps(m) ==
    IF m.size = 0 THEN "{}"
    ELSE IF m.val = "str" THEN "{\"ip\": \"127.0.0.1\"}"
    ELSE "{\"tags\": [\"a\", \"b\"]}"
json_loads(s) ==
    IF s = "{}" THEN EmptyDict
    ELSE IF s = "{\"ip\": \"127.0.0.1\"}" THEN IpDict
    ELSE TagsListDict

\* content_str = json.dumps(message) if not isinstance(message, str) else message
content_str(message) ==
    IF message.kind = "str" THEN message.text ELSE "{\"" \o message.text \o "\": \"deploy\"}"

\* ------------------------------------------------------ the pool (a dict)
\* self._pool is an insertion-ordered dict ws_id -> Connection, modelled as
\* the sequence of its values in insertion order.
PoolKeys(p) == {p[i].ws_id : i \in DOMAIN p}
PoolIndex(p, ws_id) == CHOOSE i \in DOMAIN p : p[i].ws_id = ws_id
PoolSet(p, ws_id, c) ==
    IF ws_id \in PoolKeys(p) THEN [p EXCEPT ![PoolIndex(p, ws_id)] = c] ELSE Append(p, c)
PoolDel_clear(p, ws_id) == <<>>
PoolDel(p, ws_id) == SelectSeq(p, LAMBDA c : c.ws_id # ws_id)

\* ConnectionPool.get: Optional[Connection]
get(p, ws_id) == IF ws_id \in PoolKeys(p) THEN Some(p[PoolIndex(p, ws_id)]) ELSE None
\* ConnectionPool.get_all: list(self._pool.values())
get_all(p) == p
\* ConnectionPool.count
count(p) == Len(p)

\* --------------------------------------------------------------- the store
\* The connections table is the set of its rows; ws_id is UNIQUE, so at most
\* one row answers WHERE ws_id=?.
RowIn(conns, ws_id) == CHOOSE r \in conns : r.ws_id = ws_id
StoredIds(conns) == {r.ws_id : r \in conns}

\* Connection(ws_id=..., agent=..., metadata=metadata or {}) with the
\* dataclass defaults.
Connection(ws_id, agent, metadata, t) ==
    [ws_id |-> ws_id, agent |-> agent, metadata |-> metadata,
     connected_at |-> isoformat(t), last_heartbeat |-> isoformat(t),
     status |-> "active", message_count |-> 0, db_id |-> None]

\* Variant of pool_add: an upsert that updates the row of the same ws_id in
\* place (ON CONFLICT(ws_id) DO UPDATE) and keeps its id and counter.
pool_add_upsert(st, connection) ==
    IF connection.ws_id \notin StoredIds(st.connections)
    THEN LET id == st.seq + 1
             c == [connection EXCEPT !.db_id = Some(id)]
         IN [pool |-> PoolSet(st.pool, c.ws_id, c),
             connections |-> st.connections \cup
                 {[id |-> id, ws_id |-> c.ws_id, agent |-> c.agent,
                   metadata |-> json_dumps(c.metadata),
                   connected_at |-> c.connected_at,
                   last_heartbeat |-> c.last_heartbeat, status |-> c.status,
                   message_count |-> c.message_count, disconnected_at |-> None]},
             seq |-> id, replaced |-> None, result |-> c]
    ELSE LET old == RowIn(st.connections, connection.ws_id)
             c == [connection EXCEPT !.db_id = Some(old.id),
                                     !.message_count = old.message_count]
         IN [pool |-> PoolSet(st.pool, c.ws_id, c),
             connections |-> {r \in st.connections : r.ws_id # c.ws_id} \cup
                 {[old EXCEPT !.agent = c.agent, !.status = c.status,
                              !.connected_at = c.connected_at,
                              !.last_heartbeat = c.last_heartbeat,
                              !.disconnected_at = None]},
             seq |-> st.seq, replaced |-> Some(old), result |-> c]

\* ConnectionPool.add on a state st = [pool, connections, seq]:
\* INSERT OR REPLACE deletes the row holding the same ws_id (UNIQUE) and
\* inserts a new one under the next AUTOINCREMENT id.
pool_add(st, connection) ==
    LET id == st.seq + 1
        row == [id |-> id, ws_id |-> connection.ws_id, agent |-> connection.agent,
                metadata |-> json_dumps(connection.metadata),
                connected_at |-> connection.connected_at,
                last_heartbeat |-> connection.last_heartbeat,
                status |-> connection.status,
                message_count |-> connection.message_count,
                disconnected_at |-> None]
        c == [connection EXCEPT !.db_id = Some(id)]
    IN [pool |-> PoolSet(st.pool, c.ws_id, c),
        connections |-> {r \in st.connections : r.ws_id # c.ws_id} \cup {row},
        seq |-> id,
        replaced |-> IF c.ws_id \in StoredIds(st.connections)
                     THEN Some(RowIn(st.connections, c.ws_id)) ELSE None,
        result |-> c]

\* Variant of pool_remove: the UPDATE has lost its WHERE clause.
pool_remove_no_where(st, ws_id, t) ==
    IF ws_id \notin PoolKeys(st.pool)
    THEN [pool |-> st.pool, connections |-> st.connections, result |-> FALSE]
    ELSE [pool |-> PoolDel(st.pool, ws_id),
          connections |->
              {[r EXCEPT !.status = "disconnected",
                         !.disconnected_at = Some(sql_now(t))] : r \in st.connections},
          result |-> TRUE]

\* Variant of pool_remove: the UPDATE also clears the counter of the row.
pool_remove_reset_count(st, ws_id, t) ==
    IF ws_id \notin PoolKeys(st.pool)
    THEN [pool |-> st.pool, connections |-> st.connections, result |-> FALSE]
    ELSE [pool |-> PoolDel(st.pool, ws_id),
          connections |->
              {IF r.ws_id = ws_id
               THEN [r EXCEPT !.status = "disconnected",
                              !.disconnected_at = Some(sql_now(t)),
                              !.message_count = 0]
               ELSE r : r \in st.connections},
          result |-> TRUE]

\* Variant of pool_remove: the membership test is missing.
pool_remove_unguarded(st, ws_id, t) ==
    [pool |-> PoolDel(st.pool, ws_id),
     connections |->
         {IF r.ws_id = ws_id
          THEN [r EXCEPT !.status = "disconnected",
                         !.disconnected_at = Some(sql_now(t))]
          ELSE r : r \in st.connections},
     result |-> TRUE]

\* ConnectionPool.remove on st = [pool, connections]
pool_remove(st, ws_id, t) ==
    IF ws_id \notin PoolKeys(st.pool)
    THEN [pool |-> st.pool, connections |-> st.connections, result |-> FALSE]
    ELSE [pool |-> PoolDel(st.pool, ws_id),
          connections |->
              {IF r.ws_id = ws_id
               THEN [r EXCEPT !.status = "disconnected",
                              !.disconnected_at = Some(sql_now(t))]
               ELSE r : r \in st.connections},
          result |-> TRUE]

\* Variant of increment_message_count: the counter is raised in memory only.
increment_message_count_mem_only(st, ws_id) ==
    IF ws_id \in PoolKeys(st.pool)
    THEN [pool |-> [st.pool EXCEPT ![PoolIndex(st.pool, ws_id)].message_count = @ + 1],
          connections |-> st.connections]
    ELSE [pool |-> st.pool, connections |-> st.connections]

\* Variant of increment_message_count: the UPDATE has lost its WHERE clause.
increment_message_count_no_where(st, ws_id) ==
    IF ws_id \in PoolKeys(st.pool)
    THEN [pool |-> [st.pool EXCEPT ![PoolIndex(st.pool, ws_id)].message_count = @ + 1],
          connections |-> {[r EXCEPT !.message_count = @ + 1] : r \in st.connections}]
    ELSE [pool |-> st.pool, connections |-> st.connections]

\* ConnectionPool.increment_message_count on st = [pool, connections]
increment_message_count(st, ws_id) ==
    IF ws_id \in PoolKeys(st.pool)
    THEN [pool |-> [st.pool EXCEPT ![PoolIndex(st.pool, ws_id)].message_count = @ + 1],
          connections |->
              {IF r.ws_id = ws_id THEN [r EXCEPT !.message_count = @ + 1] ELSE r
                 : r \in st.connections}]
    ELSE [pool |-> st.pool, connections |-> st.connections]

\* Variant of MessageRow: delivered is left to the column default 0.
MessageRow_undelivered(msgs, msg_type, sender_id, recipient_id, content, t) ==
    [id |-> Len(msgs) + 1, msg_id |-> Len(msgs) + 1, msg_type |-> msg_type,
     sender_id |-> sender_id, recipient_id |-> Some(recipient_id),
     content |-> content, sent_at |-> sql_now(t), delivered |-> 0]

\* The row that INSERT INTO messages(msg_id, msg_type, sender_id,
\* recipient_id, content, delivered) VALUES(?,?,?,?,?,1) adds: the id is the
\* next AUTOINCREMENT id, msg_id a fresh uuid4, sent_at the column default.
MessageRow(msgs, msg_type, sender_id, recipient_id, content, t) ==
    [id |-> Len(msgs) + 1, msg_id |-> Len(msgs) + 1, msg_type |-> msg_type,
     sender_id |-> sender_id, recipient_id |-> Some(recipient_id),
     content |-> content, sent_at |-> sql_now(t), delivered |-> 1]

\* ------------------------------------------------------------ return values
\* ret is the record of the last call: the operation, its arguments and what
\* it returned (for connect also the row its INSERT OR REPLACE displaced).
NoFilter == [kind |-> "none", agent |-> NoWs]
AgentFilter(a) == [kind |-> "agent", agent |-> a]
Filters == {NoFilter} \cup {AgentFilter(a) : a \in Agents}
\* filter_fn: lambda c: c.agent == args.agent
filter_fn(f, c) == c.agent = f.agent

NoRet ==
    [op |-> "init", ws_id |-> NoWs, ok |-> FALSE, conn |-> None, msg |-> None,
     replaced |-> None,
     delivered_to |-> <<>>, active |-> <<>>, timed_out |-> <<>>,
     filter |-> NoFilter, timeout |-> 0,
     who |-> None, limit |-> 0, rows |-> <<>>, stats |-> None, point |-> 0]

\* -------------------------------------------------------------------- Init
\* get_db on a new path followed by ConnectionPool(conn): empty tables,
\* _load_active loads nothing.
Init ==
    /\ pool = <<>>
    /\ connections = {}
    /\ seq_connections = 0
    /\ messages = <<>>
    /\ heartbeat_log = <<>>
    /\ now = 0
    /\ ret = NoRet

\* Every call reads the clock, which has moved on by d ticks since the
\* previous call.
Clock(d) == now + d <= MaxTime /\ now' = now + d
Steps == 0 .. MaxTime

\* ----------------------------------------------------------------- actions
\* add_connection(pool, ws_id, agent, metadata)
Connect(ws_id, agent, metadata, d) ==
    /\ Clock(d)
    /\ seq_connections < MaxRowId
    /\ LET conn_obj == Connection(ws_id, agent, metadata, now')
           r == pool_add([pool |-> pool, connections |-> connections,
                          seq |-> seq_connections], conn_obj)
       IN /\ pool' = r.pool
          /\ connections' = r.connections
          /\ seq_connections' = r.seq
          /\ ret' = [NoRet EXCEPT !.op = "connect", !.ws_id = ws_id, !.ok = TRUE,
                                  !.conn = Some(r.result), !.replaced = r.replaced]
    /\ UNCHANGED <<messages, heartbeat_log>>

\* remove_connection(pool, ws_id)
Disconnect(ws_id, d) ==
    /\ Clock(d)
    /\ LET r == pool_remove([pool |-> pool, connections |-> connections], ws_id, now')
       IN /\ pool' = r.pool
          /\ connections' = r.connections
          /\ ret' = [NoRet EXCEPT !.op = "disconnect", !.ws_id = ws_id, !.ok = r.result]
    /\ UNCHANGED <<seq_connections, messages, heartbeat_log>>

\* Variant of UpdateHeartbeat: the UPDATE has lost its WHERE clause.
UpdateHeartbeat_no_where(ws_id, latency_ms, d) ==
    /\ Clock(d)
    /\ IF ws_id \notin PoolKeys(pool)
       THEN /\ ret' = [NoRet EXCEPT !.op = "heartbeat", !.ws_id = ws_id, !.ok = FALSE]
            /\ UNCHANGED <<pool, connections, heartbeat_log>>
       ELSE /\ Len(heartbeat_log) < MaxHeartbeats
            /\ LET ts == isoformat(now')
               IN /\ pool' = [pool EXCEPT ![PoolIndex(pool, ws_id)].last_heartbeat = ts]
                  /\ connections' = {[r EXCEPT !.last_heartbeat = ts] : r \in connections}
                  /\ heartbeat_log' =
                         Append(heartbeat_log,
                                [id |-> Len(heartbeat_log) + 1, ws_id |-> ws_id,
                                 ts |-> sql_now(now'), latency_ms |-> latency_ms])
            /\ ret' = [NoRet EXCEPT !.op = "heartbeat", !.ws_id = ws_id, !.ok = TRUE]
    /\ UNCHANGED <<seq_connections, messages>>

\* ConnectionPool.update_heartbeat(ws_id, latency_ms)
UpdateHeartbeat(ws_id, latency_ms, d) ==
    /\ Clock(d)
    /\ IF ws_id \notin PoolKeys(pool)
       THEN /\ ret' = [NoRet EXCEPT !.op = "heartbeat", !.ws_id = ws_id, !.ok = FALSE]
            /\ UNCHANGED <<pool, connections, heartbeat_log>>
       ELSE /\ Len(heartbeat_log) < MaxHeartbeats
            /\ LET ts == isoformat(now')
               IN /\ pool' = [pool EXCEPT ![PoolIndex(pool, ws_id)].last_heartbeat = ts]
                  /\ connections' =
                         {IF r.ws_id = ws_id THEN [r EXCEPT !.last_heartbeat = ts] ELSE r
                            : r \in connections}
                  /\ heartbeat_log' =
                         Append(heartbeat_log,
                                [id |-> Len(heartbeat_log) + 1, ws_id |-> ws_id,
                                 ts |-> sql_now(now'), latency_ms |-> latency_ms])
            /\ ret' = [NoRet EXCEPT !.op = "heartbeat", !.ws_id = ws_id, !.ok = TRUE]
    /\ UNCHANGED <<seq_connections, messages>>

\* Variant of Send: the early return on an unknown ws_id is missing.
Send_no_check(ws_id, message, d) ==
    /\ Clock(d)
    /\ Len(messages) < MaxMessages
    /\ LET msg == MessageRow(messages, "data", None, ws_id, content_str(message), now')
           inc == increment_message_count(
                      [pool |-> pool, connections |-> connections], ws_id)
       IN /\ messages' = Append(messages, msg)
          /\ pool' = inc.pool
          /\ connections' = inc.connections
          /\ ret' = [NoRet EXCEPT !.op = "send", !.ws_id = ws_id, !.ok = TRUE,
                                  !.msg = Some(msg)]
    /\ UNCHANGED <<seq_connections, heartbeat_log>>

\* send_message(pool, db_conn, ws_id, message)
Send(ws_id, message, d) ==
    /\ Clock(d)
    /\ LET conn_obj == get(pool, ws_id)
       IN IF conn_obj = None
          THEN /\ ret' = [NoRet EXCEPT !.op = "send", !.ws_id = ws_id, !.ok = FALSE]
               /\ UNCHANGED <<pool, connections, messages>>
          ELSE /\ Len(messages) < MaxMessages
               /\ LET msg == MessageRow(messages, "data", None, ws_id,
                                        content_str(message), now')
                      inc == increment_message_count(
                                 [pool |-> pool, connections |-> connections], ws_id)
                  IN /\ messages' = Append(messages, msg)
                     /\ pool' = inc.pool
                     /\ connections' = inc.connections
                     /\ ret' = [NoRet EXCEPT !.op = "send", !.ws_id = ws_id, !.ok = TRUE,
                                             !.msg = Some(msg)]
    /\ UNCHANGED <<seq_connections, heartbeat_log>>

\* The for loop of broadcast over targets, on
\* st = [pool, connections, messages, delivered_to].
RECURSIVE broadcast_loop(_, _, _, _)
broadcast_loop(targets, st, content, t) ==
    IF targets = <<>>
    THEN st
    ELSE LET conn_obj == Head(targets)
             msg == MessageRow(st.messages, "broadcast", None, conn_obj.ws_id, content, t)
             inc == increment_message_count(
                        [pool |-> st.pool, connections |-> st.connections], conn_obj.ws_id)
         IN broadcast_loop(Tail(targets),
                           [pool |-> inc.pool, connections |-> inc.connections,
                            messages |-> Append(st.messages, msg),
                            delivered_to |-> Append(st.delivered_to, conn_obj.ws_id)],
                           content, t)

\* Variant of broadcast_targets: the filter is never applied.
broadcast_targets_unfiltered(p, f) == get_all(p)

\* targets = pool.get_all(); if filter_fn: targets = [c for c in targets if filter_fn(c)]
broadcast_targets(p, f) ==
    IF f.kind = "none" THEN get_all(p) ELSE SelectSeq(get_all(p), LAMBDA c : filter_fn(f, c))

\* broadcast(pool, db_conn, message, filter_fn)
Broadcast(message, f, d) ==
    /\ Clock(d)
    /\ LET targets == broadcast_targets(pool, f)
           r == broadcast_loop(targets,
                               [pool |-> pool, connections |-> connections,
                                messages |-> messages, delivered_to |-> <<>>],
                               content_str(message), now')
       IN /\ Len(messages) + Len(targets) <= MaxMessages
          /\ pool' = r.pool
          /\ connections' = r.connections
          /\ messages' = r.messages
          /\ ret' = [NoRet EXCEPT !.op = "broadcast", !.ok = TRUE, !.filter = f,
                                  !.delivered_to = r.delivered_to]
    /\ UNCHANGED <<seq_connections, heartbeat_log>>

\* Variant of is_stale: last_hb <= cutoff.
is_stale_inclusive(conn_obj, t, timeout) ==
    LET cutoff == t - timeout * TicksPerSecond
        last_hb == IF fromisoformat_ok(conn_obj.last_heartbeat)
                   THEN fromisoformat(conn_obj.last_heartbeat)
                   ELSE t
    IN last_hb <= cutoff

\* Variant of is_stale: an unparsable last_heartbeat is read as the oldest
\* instant instead of now.
is_stale_fail_closed(conn_obj, t, timeout) ==
    LET cutoff == t - timeout * TicksPerSecond
        last_hb == IF fromisoformat_ok(conn_obj.last_heartbeat)
                   THEN fromisoformat(conn_obj.last_heartbeat)
                   ELSE 0 - (MaxTime + 1) * (TicksPerSecond + 1)
    IN last_hb < cutoff

\* The test of heartbeat_check on one connection: last_hb < cutoff, with an
\* unparsable last_heartbeat read as now.
is_stale(conn_obj, t, timeout) ==
    LET cutoff == t - timeout * TicksPerSecond
        last_hb == IF fromisoformat_ok(conn_obj.last_heartbeat)
                   THEN fromisoformat(conn_obj.last_heartbeat)
                   ELSE t
    IN last_hb < cutoff

\* Variant of heartbeat_loop: active.append is not under the else, every
\* connection visited is recorded as active.
RECURSIVE heartbeat_loop_no_else(_, _, _, _)
heartbeat_loop_no_else(conns, st, t, timeout) ==
    IF conns = <<>>
    THEN st
    ELSE LET conn_obj == Head(conns)
         IN IF is_stale(conn_obj, t, timeout)
            THEN LET rm == pool_remove([pool |-> st.pool, connections |-> st.connections],
                                       conn_obj.ws_id, t)
                 IN heartbeat_loop_no_else(Tail(conns),
                                   [pool |-> rm.pool, connections |-> rm.connections,
                                    active |-> Append(st.active, conn_obj.ws_id),
                                    timed_out |-> Append(st.timed_out, conn_obj.ws_id)],
                                   t, timeout)
            ELSE heartbeat_loop_no_else(Tail(conns),
                                [st EXCEPT !.active = Append(@, conn_obj.ws_id)],
                                t, timeout)

\* The for loop of heartbeat_check over list(pool.get_all()), on
\* st = [pool, connections, active, timed_out].
RECURSIVE heartbeat_loop(_, _, _, _)
heartbeat_loop(conns, st, t, timeout) ==
    IF conns = <<>>
    THEN st
    ELSE LET conn_obj == Head(conns)
         IN IF is_stale(conn_obj, t, timeout)
            THEN LET rm == pool_remove([pool |-> st.pool, connections |-> st.connections],
                                       conn_obj.ws_id, t)
                 IN heartbeat_loop(Tail(conns),
                                   [pool |-> rm.pool, connections |-> rm.connections,
                                    active |-> st.active,
                                    timed_out |-> Append(st.timed_out, conn_obj.ws_id)],
                                   t, timeout)
            ELSE heartbeat_loop(Tail(conns),
                                [st EXCEPT !.active = Append(@, conn_obj.ws_id)],
                                t, timeout)

\* heartbeat_check(pool, db_conn, timeout)
HeartbeatCheck(timeout, d) ==
    /\ Clock(d)
    /\ LET r == heartbeat_loop(get_all(pool),
                               [pool |-> pool, connections |-> connections,
                                active |-> <<>>, timed_out |-> <<>>],
                               now', timeout)
       IN /\ pool' = r.pool
          /\ connections' = r.connections
          /\ ret' = [NoRet EXCEPT !.op = "heartbeat_check", !.ok = TRUE,
                                  !.timeout = timeout,
                                  !.active = r.active, !.timed_out = r.timed_out]
    /\ UNCHANGED <<seq_connections, messages, heartbeat_log>>

Next ==
    \/ \E ws_id \in WsIds, agent \in Agents, metadata \in MetaVals, d \in Steps :
           Connect(ws_id, agent, metadata, d)
    \/ \E ws_id \in WsIds, d \in Steps : Disconnect(ws_id, d)
    \/ \E ws_id \in WsIds, latency_ms \in Latencies, d \in Steps :
           UpdateHeartbeat(ws_id, latency_ms, d)
    \/ \E ws_id \in WsIds, message \in Payloads, d \in Steps : Send(ws_id, message, d)
    \/ \E message \in Payloads, f \in Filters, d \in Steps : Broadcast(message, f, d)
    \/ \E timeout \in Timeouts, d \in Steps : HeartbeatCheck(timeout, d)

Spec == Init /\ [][Next]_vars

\* ----------------------------------------------------------------- queries
Limits == {0, 1, 2}
Senders == WsIds

\* send_message(pool, db_conn, ws_id, message, sender_id=sender_id)
SendFrom(ws_id, message, sender_id, d) ==
    /\ Clock(d)
    /\ LET conn_obj == get(pool, ws_id)
       IN IF conn_obj = None
          THEN /\ ret' = [NoRet EXCEPT !.op = "send", !.ws_id = ws_id, !.ok = FALSE]
               /\ UNCHANGED <<pool, connections, messages>>
          ELSE /\ Len(messages) < MaxMessages
               /\ LET msg == MessageRow(messages, "data", Some(sender_id), ws_id,
                                        content_str(message), now')
                      inc == increment_message_count(
                                 [pool |-> pool, connections |-> connections], ws_id)
                  IN /\ messages' = Append(messages, msg)
                     /\ pool' = inc.pool
                     /\ connections' = inc.connections
                     /\ ret' = [NoRet EXCEPT !.op = "send", !.ws_id = ws_id, !.ok = TRUE,
                                             !.msg = Some(msg)]
    /\ UNCHANGED <<seq_connections, heartbeat_log>>

\* ORDER BY sent_at ASC: the scan of idx_msg_sent from its first entry.
RECURSIVE index_scan_asc(_)
index_scan_asc(rows) ==
    IF rows = {}
    THEN <<>>
    ELSE LET first == CHOOSE r \in rows :
                         \A q \in rows :
                            \/ r.sent_at < q.sent_at
                            \/ (r.sent_at = q.sent_at /\ r.id <= q.id)
         IN <<first>> \o index_scan_asc(rows \ {first})

\* ORDER BY sent_at DESC: SQLite answers it by scanning idx_msg_sent from its
\* last entry; the index orders its entries by (sent_at, rowid).
RECURSIVE index_scan_desc(_)
index_scan_desc(rows) ==
    IF rows = {}
    THEN <<>>
    ELSE LET last == CHOOSE r \in rows :
                        \A q \in rows :
                           \/ q.sent_at < r.sent_at
                           \/ (q.sent_at = r.sent_at /\ q.id <= r.id)
         IN <<last>> \o index_scan_desc(rows \ {last})

\* LIMIT ?: a negative limit means no limit.
sql_limit(rows, limit) ==
    IF limit < 0 \/ limit >= Len(rows) THEN rows ELSE SubSeq(rows, 1, limit)

\* get_message_history(db_conn, ws_id, limit)
get_message_history(msgs, ws_id, limit) ==
    LET all == {msgs[i] : i \in DOMAIN msgs}
        rows == IF ws_id # None
                THEN {r \in all : r.recipient_id = ws_id \/ r.sender_id = ws_id}
                ELSE all
    IN sql_limit(index_scan_desc(rows), limit)

History(ws_id, limit) ==
    /\ ret' = [NoRet EXCEPT !.op = "history", !.who = ws_id, !.limit = limit,
                            !.rows = get_message_history(messages, ws_id, limit)]
    /\ UNCHANGED <<pool, connections, seq_connections, messages, heartbeat_log, now>>

\* A registry built half a second before a second boundary of the clock.
InitEarly ==
    /\ pool = <<>>
    /\ connections = {}
    /\ seq_connections = 0
    /\ messages = <<>>
    /\ heartbeat_log = <<>>
    /\ now = 0 - 1
    /\ ret = NoRet

NextHistory ==
    \/ \E ws_id \in WsIds, d \in Steps : Connect(ws_id, "alice", EmptyDict, d)
    \/ \E ws_id \in WsIds, d \in Steps : Disconnect(ws_id, d)
    \/ \E ws_id \in WsIds, message \in Payloads, d \in Steps : Send(ws_id, message, d)
    \/ \E ws_id \in WsIds, message \in Payloads, sender_id \in Senders, d \in Steps :
           SendFrom(ws_id, message, sender_id, d)
    \/ \E message \in Payloads, d \in Steps : Broadcast(message, NoFilter, d)
    \/ \E ws_id \in {None} \cup {Some(w) : w \in WsIds}, limit \in Limits :
           History(ws_id, limit)

SpecHistory == InitEarly /\ [][NextHistory]_vars

\* The loop of connection_stats: agents[c.agent] = agents.get(c.agent, 0) + 1
RECURSIVE count_agents(_, _)
count_agents(conns, agents) ==
    IF conns = <<>>
    THEN agents
    ELSE LET c == Head(conns)
             n == IF c.agent \in DOMAIN agents THEN agents[c.agent] ELSE 0
         IN count_agents(Tail(conns),
                         [a \in DOMAIN agents \cup {c.agent} |->
                             IF a = c.agent THEN n + 1 ELSE agents[a]])

\* Variant of connection_stats: agents are counted over every row of the
\* connections table instead of the live pool.
connection_stats_from_rows(p, conns, msgs) ==
    [active_connections |-> count(p),
     total_ever_connected |-> Cardinality(conns),
     total_messages |-> Len(msgs),
     agents |-> [a \in {r.agent : r \in conns} |->
                    Cardinality({r \in conns : r.agent = a})]]

\* connection_stats(pool, db_conn)
connection_stats(p, conns, msgs) ==
    [active_connections |-> count(p),
     total_ever_connected |-> Cardinality(conns),
     total_messages |-> Len(msgs),
     agents |-> count_agents(get_all(p), <<>>)]

Stats ==
    /\ ret' = [NoRet EXCEPT !.op = "stats",
                            !.stats = Some(connection_stats(pool, connections, messages))]
    /\ UNCHANGED <<pool, connections, seq_connections, messages, heartbeat_log, now>>

NextStats ==
    \/ Next
    \/ Stats

SpecStats == Init /\ [][NextStats]_vars

\* ------------------------------------------------ unparsable timestamps
\* pool.add(Connection(ws_id=ws_id, agent=agent, last_heartbeat=<text that
\* datetime.fromisoformat rejects>))
AddRaw(ws_id, agent, d) ==
    /\ Clock(d)
    /\ seq_connections < MaxRowId
    /\ LET conn_obj == [Connection(ws_id, agent, EmptyDict, now')
                           EXCEPT !.last_heartbeat = Malformed]
           r == pool_add([pool |-> pool, connections |-> connections,
                          seq |-> seq_connections], conn_obj)
       IN /\ pool' = r.pool
          /\ connections' = r.connections
          /\ seq_connections' = r.seq
          /\ ret' = [NoRet EXCEPT !.op = "connect", !.ws_id = ws_id, !.ok = TRUE,
                                  !.conn = Some(r.result), !.replaced = r.replaced]
    /\ UNCHANGED <<messages, heartbeat_log>>

\* heartbeat_check takes any int as timeout.
AnyTimeouts == Timeouts \cup {0 - 1}

NextMalformed ==
    \/ \E ws_id \in WsIds, agent \in Agents, d \in Steps : AddRaw(ws_id, agent, d)
    \/ \E ws_id \in WsIds, agent \in Agents, metadata \in MetaVals, d \in Steps :
           Connect(ws_id, agent, metadata, d)
    \/ \E ws_id \in WsIds, d \in Steps : Disconnect(ws_id, d)
    \/ \E ws_id \in WsIds, latency_ms \in Latencies, d \in Steps :
           UpdateHeartbeat(ws_id, latency_ms, d)
    \/ \E timeout \in AnyTimeouts, d \in Steps : HeartbeatCheck(timeout, d)

SpecMalformed == Init /\ [][NextMalformed]_vars

\* ------------------------------------------------------- a new registry
\* ConnectionPool._row_to_connection
_row_to_connection(row) ==
    [ws_id |-> row.ws_id, agent |-> row.agent, metadata |-> json_loads(row.metadata),
     connected_at |-> row.connected_at, last_heartbeat |-> row.last_heartbeat,
     status |-> row.status, message_count |-> row.message_count,
     db_id |-> Some(row.id)]

\* The rows of a SELECT on connections answered through idx_conn_status:
\* ascending rowid within one status.
RECURSIVE rows_by_id(_)
rows_by_id(rows) ==
    IF rows = {}
    THEN <<>>
    ELSE LET first == CHOOSE r \in rows : \A q \in rows : r.id <= q.id
         IN <<first>> \o rows_by_id(rows \ {first})

\* Variant of _load_active: the SELECT has lost its WHERE clause.
_load_active_all(conns) ==
    LET rows == rows_by_id(conns)
    IN [i \in DOMAIN rows |-> _row_to_connection(rows[i])]

\* ConnectionPool._load_active:
\* SELECT * FROM connections WHERE status='active', one entry per row.
_load_active(conns) ==
    LET rows == rows_by_id({r \in conns : r.status = "active"})
    IN [i \in DOMAIN rows |-> _row_to_connection(rows[i])]

\* pool = ConnectionPool(conn) over the store as it is (what main does on
\* every invocation).
Restart ==
    /\ pool' = _load_active(connections)
    /\ ret' = [NoRet EXCEPT !.op = "restart"]
    /\ UNCHANGED <<connections, seq_connections, messages, heartbeat_log, now>>

\* add_connection takes any dict as metadata.
AnyMetaVals == {IpDict, TagsTupleDict}

NextRestart ==
    \/ \E ws_id \in WsIds, metadata \in AnyMetaVals, d \in Steps :
           Connect(ws_id, "alice", metadata, d)
    \/ \E ws_id \in WsIds, d \in Steps : Disconnect(ws_id, d)
    \/ \E ws_id \in WsIds, latency_ms \in Latencies, d \in Steps :
           UpdateHeartbeat(ws_id, latency_ms, d)
    \/ \E ws_id \in WsIds, message \in Payloads, d \in Steps : Send(ws_id, message, d)
    \/ \E timeout \in Timeouts, d \in Steps : HeartbeatCheck(timeout, d)
    \/ Restart

SpecRestart == Init /\ [][NextRestart]_vars

\* ------------------------------------------- transactions and stopping
\* pool._conn and db_conn are one sqlite3 connection (main, lines 371-372) in
\* the default isolation mode: an INSERT or UPDATE opens a transaction if none
\* is open, commit() ends it, and what is uncommitted when the process stops
\* is rolled back.  A transaction state st holds the memory of the process
\* (pool), the tables as the connection sees them and the committed tables.
txn_begin(p, conns, msgs, hlog) ==
    [pool |-> p, connections |-> conns, messages |-> msgs, heartbeat_log |-> hlog,
     committed |-> [connections |-> conns, messages |-> msgs, heartbeat_log |-> hlog]]

\* conn.commit()
sql_commit(st) ==
    [st EXCEPT !.committed = [connections |-> st.connections,
                              messages |-> st.messages,
                              heartbeat_log |-> st.heartbeat_log]]

\* The statements of one target: the INSERT into messages, then
\* increment_message_count (memory += 1, UPDATE, commit).
UnitLen == 4

\* Variant of target_unit: the connection is in autocommit mode
\* (isolation_level=None), each statement is committed on its own.
target_unit_autocommit(st, ws_id, msg_type, content, t, k) ==
    LET row == MessageRow(st.messages, msg_type, None, ws_id, content, t)
        inc == increment_message_count(
                   [pool |-> st.pool, connections |-> st.connections], ws_id)
        s1 == sql_commit([st EXCEPT !.messages = Append(@, row)])
        s2 == [s1 EXCEPT !.pool = inc.pool]
        s3 == sql_commit([s2 EXCEPT !.connections = inc.connections])
        s4 == sql_commit(s3)
    IN CASE k = 0 -> st [] k = 1 -> s1 [] k = 2 -> s2 [] k = 3 -> s3 [] OTHER -> s4

\* The first k statements of one target of send_message / broadcast.
target_unit(st, ws_id, msg_type, content, t, k) ==
    LET row == MessageRow(st.messages, msg_type, None, ws_id, content, t)
        inc == increment_message_count(
                   [pool |-> st.pool, connections |-> st.connections], ws_id)
        s1 == [st EXCEPT !.messages = Append(@, row)]
        s2 == [s1 EXCEPT !.pool = inc.pool]
        s3 == [s2 EXCEPT !.connections = inc.connections]
        s4 == sql_commit(s3)
    IN CASE k = 0 -> st [] k = 1 -> s1 [] k = 2 -> s2 [] k = 3 -> s3 [] OTHER -> s4

\* The first n statements of the for loop of broadcast.
RECURSIVE broadcast_until(_, _, _, _, _)
broadcast_until(targets, st, content, t, n) ==
    IF targets = <<>> \/ n = 0
    THEN st
    ELSE IF n >= UnitLen
         THEN broadcast_until(Tail(targets),
                              target_unit(st, Head(targets).ws_id, "broadcast",
                                          content, t, UnitLen),
                              content, t, n - UnitLen)
         ELSE target_unit(st, Head(targets).ws_id, "broadcast", content, t, n)

\* Variant of heartbeat_unit: the log row is written first and each
\* statement is committed on its own.
heartbeat_unit_log_first(st, ws_id, latency_ms, t, k) ==
    LET ts == isoformat(t)
        s1 == [st EXCEPT !.pool[PoolIndex(st.pool, ws_id)].last_heartbeat = ts]
        s2 == sql_commit([s1 EXCEPT !.heartbeat_log =
                     Append(@, [id |-> Len(st.heartbeat_log) + 1, ws_id |-> ws_id,
                                ts |-> sql_now(t), latency_ms |-> latency_ms])])
        s3 == sql_commit([s2 EXCEPT !.connections =
                     {IF r.ws_id = ws_id THEN [r EXCEPT !.last_heartbeat = ts] ELSE r
                        : r \in st.connections}])
        s4 == sql_commit(s3)
    IN CASE k = 0 -> st [] k = 1 -> s1 [] k = 2 -> s2 [] k = 3 -> s3 [] OTHER -> s4

\* The first k statements of update_heartbeat for a ws_id of the pool:
\* memory, UPDATE connections, INSERT INTO heartbeat_log, commit.
heartbeat_unit(st, ws_id, latency_ms, t, k) ==
    LET ts == isoformat(t)
        s1 == [st EXCEPT !.pool[PoolIndex(st.pool, ws_id)].last_heartbeat = ts]
        s2 == [s1 EXCEPT !.connections =
                     {IF r.ws_id = ws_id THEN [r EXCEPT !.last_heartbeat = ts] ELSE r
                        : r \in st.connections}]
        s3 == [s2 EXCEPT !.heartbeat_log =
                     Append(@, [id |-> Len(st.heartbeat_log) + 1, ws_id |-> ws_id,
                                ts |-> sql_now(t), latency_ms |-> latency_ms])]
        s4 == sql_commit(s3)
    IN CASE k = 0 -> st [] k = 1 -> s1 [] k = 2 -> s2 [] k = 3 -> s3 [] OTHER -> s4

\* The process stops: the store keeps what was committed, the memory is
\* lost, and the next process builds its registry from the store.
Stopped(st, op, ws_id, k) ==
    /\ connections' = st.committed.connections
    /\ messages' = st.committed.messages
    /\ heartbeat_log' = st.committed.heartbeat_log
    /\ pool' = _load_active(st.committed.connections)
    /\ ret' = [NoRet EXCEPT !.op = op, !.ws_id = ws_id, !.point = k]
    /\ UNCHANGED seq_connections

\* send_message(pool, db_conn, ws_id, message) stopped after k statements.
SendCrash(ws_id, message, k, d) ==
    /\ Clock(d)
    /\ get(pool, ws_id) # None
    /\ Len(messages) < MaxMessages
    /\ Stopped(target_unit(txn_begin(pool, connections, messages, heartbeat_log),
                           ws_id, "data", content_str(message), now', k),
               "crash_send", ws_id, k)

\* broadcast(pool, db_conn, message) stopped after n statements of its loop.
BroadcastCrash(message, n, d) ==
    /\ Clock(d)
    /\ LET targets == broadcast_targets(pool, NoFilter)
       IN /\ targets # <<>>
          /\ n <= UnitLen * Len(targets)
          /\ Len(messages) + Len(targets) <= MaxMessages
          /\ Stopped(broadcast_until(targets,
                                     txn_begin(pool, connections, messages, heartbeat_log),
                                     content_str(message), now', n),
                     "crash_broadcast", NoWs, n)

\* pool.update_heartbeat(ws_id, latency_ms) stopped after k statements.
HeartbeatCrash(ws_id, latency_ms, k, d) ==
    /\ Clock(d)
    /\ ws_id \in PoolKeys(pool)
    /\ Len(heartbeat_log) < MaxHeartbeats
    /\ Stopped(heartbeat_unit(txn_begin(pool, connections, messages, heartbeat_log),
                              ws_id, latency_ms, now', k),
               "crash_heartbeat", ws_id, k)

NextCrash ==
    \/ \E ws_id \in WsIds, d \in Steps : Connect(ws_id, "alice", EmptyDict, d)
    \/ \E ws_id \in WsIds, d \in Steps : Disconnect(ws_id, d)
    \/ \E ws_id \in WsIds, message \in Payloads, d \in Steps : Send(ws_id, message, d)
    \/ \E message \in Payloads, d \in Steps : Broadcast(message, NoFilter, d)
    \/ \E ws_id \in WsIds, latency_ms \in Latencies, d \in Steps :
           UpdateHeartbeat(ws_id, latency_ms, d)
    \/ \E ws_id \in WsIds, message \in Payloads, k \in 0 .. UnitLen, d \in Steps :
           SendCrash(ws_id, message, k, d)
    \/ \E message \in Payloads, n \in 0 .. UnitLen * MaxMessages, d \in Steps :
           BroadcastCrash(message, n, d)
    \/ \E ws_id \in WsIds, latency_ms \in Latencies, k \in 0 .. UnitLen, d \in Steps :
           HeartbeatCrash(ws_id, latency_ms, k, d)

SpecCrash == Init /\ [][NextCrash]_vars

\* --------------------------------------------------- failing store writes
\* The first execute() of the operation raises sqlite3.OperationalError
\* (locked, read-only or full database): the statement changes nothing in
\* the store and the exception leaves the method at that line.

\* pool.add(connection): the INSERT OR REPLACE (line 122) raises, before
\* line 131 puts the connection into the mapping.
AddFail(ws_id, agent, d) ==
    /\ Clock(d)
    /\ ret' = [NoRet EXCEPT !.op = "fail_add", !.ws_id = ws_id]
    /\ UNCHANGED <<pool, connections, seq_connections, messages, heartbeat_log>>

\* pool.remove(ws_id) for a ws_id of the pool: the UPDATE (line 137) raises,
\* before line 142 deletes the entry.
RemoveFail(ws_id, d) ==
    /\ Clock(d)
    /\ ws_id \in PoolKeys(pool)
    /\ ret' = [NoRet EXCEPT !.op = "fail_remove", !.ws_id = ws_id]
    /\ UNCHANGED <<pool, connections, seq_connections, messages, heartbeat_log>>

\* pool.update_heartbeat(ws_id) for a ws_id of the pool: line 158 has set
\* last_heartbeat in memory when the UPDATE (line 159) raises.
UpdateHeartbeatFail(ws_id, d) ==
    /\ Clock(d)
    /\ ws_id \in PoolKeys(pool)
    /\ pool' = [pool EXCEPT ![PoolIndex(pool, ws_id)].last_heartbeat = isoformat(now')]
    /\ ret' = [NoRet EXCEPT !.op = "fail_heartbeat", !.ws_id = ws_id]
    /\ UNCHANGED <<connections, seq_connections, messages, heartbeat_log>>

\* pool.increment_message_count(ws_id) for a ws_id of the pool: line 170 has
\* added 1 in memory when the UPDATE (line 171) raises.
IncrementFail(ws_id, d) ==
    /\ Clock(d)
    /\ ws_id \in PoolKeys(pool)
    /\ pool[PoolIndex(pool, ws_id)].message_count < MaxMessages
    /\ pool' = [pool EXCEPT ![PoolIndex(pool, ws_id)].message_count = @ + 1]
    /\ ret' = [NoRet EXCEPT !.op = "fail_increment", !.ws_id = ws_id]
    /\ UNCHANGED <<connections, seq_connections, messages, heartbeat_log>>

NextFail ==
    \/ \E ws_id \in WsIds, d \in Steps : Connect(ws_id, "alice", EmptyDict, d)
    \/ \E ws_id \in WsIds, d \in Steps : Disconnect(ws_id, d)
    \/ \E ws_id \in WsIds, latency_ms \in Latencies, d \in Steps :
           UpdateHeartbeat(ws_id, latency_ms, d)
    \/ \E ws_id \in WsIds, message \in Payloads, d \in Steps : Send(ws_id, message, d)
    \/ \E ws_id \in WsIds, d \in Steps : AddFail(ws_id, "alice", d)
    \/ \E ws_id \in WsIds, d \in Steps : RemoveFail(ws_id, d)
    \/ \E ws_id \in WsIds, d \in Steps : UpdateHeartbeatFail(ws_id, d)
    \/ \E ws_id \in WsIds, d \in Steps : IncrementFail(ws_id, d)

SpecFail == Init /\ [][NextFail]_vars

\* ------------------------------------------------------------------ claims
Entry(p, ws_id) == p[PoolIndex(p, ws_id)]
OtherRows(conns, ws_id) == {r \in conns : r.ws_id # ws_id}
SeqToSet(q) == {q[i] : i \in DOMAIN q}

\* C1: the in-memory mapping is consistent with the store: the ws_ids in
\* memory are exactly the ws_ids whose row has status 'active', every entry
\* in memory has status 'active', and its message_count, last_heartbeat and
\* db_id are those of its row.
C1_PoolConsistentWithStore ==
    /\ PoolKeys(pool) = {r.ws_id : r \in {x \in connections : x.status = "active"}}
    /\ Cardinality(PoolKeys(pool)) = Len(pool)
    /\ \A i \in DOMAIN pool :
          /\ pool[i].status = "active"
          /\ \E r \in connections :
                /\ r.ws_id = pool[i].ws_id
                /\ r.message_count = pool[i].message_count
                /\ r.last_heartbeat = pool[i].last_heartbeat
                /\ Some(r.id) = pool[i].db_id

\* C1 witness: after a connect, a send, a heartbeat and a disconnect the pool
\* holds a connection that has received a message and a later heartbeat,
\* next to a disconnected row.
C1_Witness ==
    /\ \E i \in DOMAIN pool :
          /\ pool[i].message_count >= 1
          /\ pool[i].last_heartbeat # pool[i].connected_at
    /\ \E r \in connections : r.status = "disconnected"

\* C2: a connection added under ws_id stays what get(ws_id) returns (the same
\* record: ws_id, agent, metadata, connected_at, status, db_id) until a
\* remove of ws_id, a heartbeat timeout of ws_id or a replacing add; and a
\* call that works on other ws_ids leaves get(ws_id) wholly unchanged.
C2_Touched(r) ==
    CASE r.op \in {"connect", "disconnect", "heartbeat", "send"} -> {r.ws_id}
      [] r.op = "broadcast" -> SeqToSet(r.delivered_to)
      [] r.op = "heartbeat_check" -> SeqToSet(r.timed_out)
      [] OTHER -> {}
C2_Ended(r) ==
    CASE r.op \in {"connect", "disconnect"} -> {r.ws_id}
      [] r.op = "heartbeat_check" -> SeqToSet(r.timed_out)
      [] OTHER -> {}
C2_SameConnection(a, b) ==
    /\ a.ws_id = b.ws_id
    /\ a.agent = b.agent
    /\ a.metadata = b.metadata
    /\ a.connected_at = b.connected_at
    /\ a.status = b.status
    /\ a.db_id = b.db_id
C2_GetStable ==
    [][ /\ \A w \in PoolKeys(pool) :
              /\ w \notin C2_Touched(ret') => get(pool', w) = get(pool, w)
              /\ w \notin C2_Ended(ret') =>
                     /\ w \in PoolKeys(pool')
                     /\ C2_SameConnection(Entry(pool', w), Entry(pool, w))
        /\ ret'.op = "connect" => get(pool', ret'.ws_id) = ret'.conn
      ]_vars

\* C2 witness: a connection added at db_id 1 is still returned by get after a
\* second connection was added and a message was sent to that one.
C2_Witness ==
    /\ ret.op = "send" /\ ret.ok
    /\ Len(pool) = 2
    /\ pool[1].db_id = Some(1)
    /\ pool[1].ws_id # ret.ws_id
    /\ pool[1].message_count = 0

\* C3: remove of an active ws_id returns success, marks its row disconnected
\* with a disconnect timestamp, deletes the in-memory entry (get is absent,
\* count drops by one) and leaves every other connection unchanged in memory
\* and in the store.
C3_RemoveActive ==
    [][ (ret'.op = "disconnect" /\ ret'.ws_id \in PoolKeys(pool)) =>
          LET w == ret'.ws_id
              old == RowIn(connections, w)
          IN /\ ret'.ok
             /\ \E r \in connections' :
                   /\ r.ws_id = w
                   /\ r.status = "disconnected"
                   /\ r.disconnected_at = Some(sql_now(now'))
                   /\ r = [old EXCEPT !.status = r.status,
                                      !.disconnected_at = r.disconnected_at]
             /\ get(pool', w) = None
             /\ count(pool') = count(pool) - 1
             /\ \A v \in PoolKeys(pool) \ {w} : get(pool', v) = get(pool, v)
             /\ OtherRows(connections', w) = OtherRows(connections, w)
             /\ Cardinality(connections') = Cardinality(connections)
      ]_vars

\* C3 witness: a remove has succeeded while another connection stays active.
C3_Witness ==
    /\ ret.op = "disconnect" /\ ret.ok
    /\ Len(pool) = 1
    /\ \E r \in connections : r.ws_id = ret.ws_id /\ r.status = "disconnected"

\* C4: remove of a ws_id that is not active (never added, or already removed)
\* returns failure and changes neither the in-memory mapping nor any row of
\* the store, however often it is repeated.
C4_RemoveAbsent ==
    [][ (ret'.op = "disconnect" /\ ret'.ws_id \notin PoolKeys(pool)) =>
          /\ ~ret'.ok
          /\ pool' = pool
          /\ connections' = connections
          /\ seq_connections' = seq_connections
          /\ messages' = messages
          /\ heartbeat_log' = heartbeat_log
      ]_vars

\* C4 witness: a remove of an already removed ws_id has returned failure at
\* a later time than the removal.
C4_Witness ==
    /\ ret.op = "disconnect" /\ ~ret.ok
    /\ \E r \in connections :
          /\ r.ws_id = ret.ws_id
          /\ r.status = "disconnected"
          /\ Len(pool) = 1
          /\ now > fromisoformat(r.connected_at)

\* C5: broadcast with no filter on N active connections returns exactly the
\* N active ws_ids, each once; raises each one's message_count by exactly 1
\* in memory and in the store; and persists exactly N new message rows, one
\* per target with recipient_id the target and delivered = 1.
C5_BroadcastAll ==
    [][ (ret'.op = "broadcast" /\ ret'.filter = NoFilter) =>
          LET N == count(pool)
              out == ret'.delivered_to
              new == {i \in DOMAIN messages' : i > Len(messages)}
          IN /\ Len(out) = N
             /\ SeqToSet(out) = PoolKeys(pool)
             /\ PoolKeys(pool') = PoolKeys(pool)
             /\ \A w \in PoolKeys(pool) :
                   /\ Entry(pool', w).message_count = Entry(pool, w).message_count + 1
                   /\ RowIn(connections', w).message_count =
                          RowIn(connections, w).message_count + 1
                   /\ Cardinality({i \in new : messages'[i].recipient_id = Some(w)}) = 1
             /\ Len(messages') = Len(messages) + N
             /\ SubSeq(messages', 1, Len(messages)) = messages
             /\ \A i \in new : messages'[i].delivered = 1
      ]_vars

\* C5 witness: an unfiltered broadcast has reached two active connections.
C5_Witness ==
    /\ ret.op = "broadcast" /\ ret.filter = NoFilter
    /\ Len(ret.delivered_to) = 2
    /\ Len(pool) = 2

\* C6: broadcast with a filter returns, as a set, exactly the active
\* connections that satisfy the filter; a connection that does not match
\* gets no message row and keeps its message_count.
C6_BroadcastFiltered ==
    [][ (ret'.op = "broadcast" /\ ret'.filter # NoFilter) =>
          LET matching == {w \in PoolKeys(pool) : Entry(pool, w).agent = ret'.filter.agent}
              new == {i \in DOMAIN messages' : i > Len(messages)}
          IN /\ SeqToSet(ret'.delivered_to) = matching
             /\ \A w \in PoolKeys(pool) \ matching :
                   /\ get(pool', w) = get(pool, w)
                   /\ RowIn(connections', w) = RowIn(connections, w)
                   /\ \A i \in new : messages'[i].recipient_id # Some(w)
      ]_vars

\* C6 witness: a filtered broadcast has reached one of two active
\* connections.
C6_Witness ==
    /\ ret.op = "broadcast" /\ ret.filter # NoFilter
    /\ Len(ret.delivered_to) = 1
    /\ Len(pool) = 2

\* C7: send to a ws_id that is not active returns the absent indicator,
\* persists no message row and changes no message_count in memory or in the
\* store.
C7_SendInactive ==
    [][ (ret'.op = "send" /\ ret'.ws_id \notin PoolKeys(pool)) =>
          /\ ~ret'.ok
          /\ ret'.msg = None
          /\ messages' = messages
          /\ pool' = pool
          /\ connections' = connections
      ]_vars

\* C7 witness: a send to a disconnected ws_id has returned absent while
\* another connection is active.
C7_Witness ==
    /\ ret.op = "send" /\ ~ret.ok
    /\ Len(pool) = 1
    /\ \E r \in connections : r.ws_id = ret.ws_id /\ r.status = "disconnected"

\* C8: every successful send to an active connection c raises c's
\* message_count by exactly 1 (in memory and in the store), persists exactly
\* one new message row with recipient_id c and delivered = 1, and changes no
\* other connection; so k sends raise the count by k and add k rows.
C8_SendCounts ==
    [][ (ret'.op = "send" /\ ret'.ok) =>
          LET w == ret'.ws_id
          IN /\ w \in PoolKeys(pool)
             /\ Entry(pool', w) =
                    [Entry(pool, w) EXCEPT !.message_count = Entry(pool, w).message_count + 1]
             /\ RowIn(connections', w) =
                    [RowIn(connections, w) EXCEPT
                        !.message_count = RowIn(connections, w).message_count + 1]
             /\ Len(messages') = Len(messages) + 1
             /\ SubSeq(messages', 1, Len(messages)) = messages
             /\ messages'[Len(messages')].recipient_id = Some(w)
             /\ messages'[Len(messages')].delivered = 1
             /\ ret'.msg = Some(messages'[Len(messages')])
             /\ \A v \in PoolKeys(pool) \ {w} : get(pool', v) = get(pool, v)
             /\ OtherRows(connections', w) = OtherRows(connections, w)
      ]_vars

\* C8 witness: the second of two sends to one connection, with another
\* connection active and untouched.
C8_Witness ==
    /\ ret.op = "send" /\ ret.ok
    /\ Len(pool) = 2
    /\ Entry(pool, ret.ws_id).message_count = 2
    /\ Len(messages) = 2
    /\ \E v \in PoolKeys(pool) : v # ret.ws_id /\ Entry(pool, v).message_count = 0

\* C9: heartbeat_check(timeout=T): an active connection whose last heartbeat
\* is more than T seconds before the sweep is reported timed out, its row is
\* marked disconnected and get no longer returns it; one whose last heartbeat
\* is within T seconds is reported active and get still returns it.
C9_Age(c, t) == t - fromisoformat(c.last_heartbeat)
C9_HeartbeatCheck ==
    [][ ret'.op = "heartbeat_check" =>
          \A w \in PoolKeys(pool) :
             LET c == Entry(pool, w)
             IN fromisoformat_ok(c.last_heartbeat) =>
                  IF C9_Age(c, now') > ret'.timeout * TicksPerSecond
                  THEN /\ w \in SeqToSet(ret'.timed_out)
                       /\ w \notin SeqToSet(ret'.active)
                       /\ RowIn(connections', w).status = "disconnected"
                       /\ RowIn(connections', w).disconnected_at # None
                       /\ get(pool', w) = None
                  ELSE /\ w \in SeqToSet(ret'.active)
                       /\ w \notin SeqToSet(ret'.timed_out)
                       /\ RowIn(connections', w).status = "active"
                       /\ get(pool', w) = Some(c)
      ]_vars

\* C9 witness: one sweep has timed out a connection whose heartbeat is older
\* than the timeout and kept one whose heartbeat is exactly at the cutoff.
C9_Witness ==
    /\ ret.op = "heartbeat_check"
    /\ Len(ret.timed_out) = 1
    /\ Len(ret.active) = 1
    /\ Len(pool) = 1
    /\ fromisoformat(pool[1].last_heartbeat) = now - ret.timeout * TicksPerSecond

\* C10: a connect with the ws_id of a disconnected connection creates a
\* fresh active record: get returns it with status active, message_count 0
\* and a db_id no row has had before; the row of that ws_id is the new one,
\* not the disconnected row brought back; and a later remove of the ws_id
\* succeeds again.
C10_Reconnect ==
    [][ /\ (/\ ret'.op = "connect"
            /\ \E r \in connections : r.ws_id = ret'.ws_id /\ r.status = "disconnected")
           =>
           LET w == ret'.ws_id
               old == RowIn(connections, w)
               c == Entry(pool', w)
               row == RowIn(connections', w)
           IN /\ w \in PoolKeys(pool')
              /\ ret'.conn = Some(c)
              /\ c.status = "active"
              /\ c.message_count = 0
              /\ c.connected_at = isoformat(now')
              /\ \A r \in connections : c.db_id # Some(r.id)
              /\ c.db_id = Some(seq_connections')
              /\ seq_connections' > seq_connections
              /\ row.id # old.id
              /\ row.status = "active"
              /\ row.message_count = 0
              /\ row.disconnected_at = None
              /\ \A r \in connections' : r.id = old.id => r = old
        /\ (/\ ret'.op = "disconnect"
            /\ ret'.ws_id \in PoolKeys(pool))
           => /\ ret'.ok
              /\ get(pool', ret'.ws_id) = None
              /\ RowIn(connections', ret'.ws_id).status = "disconnected"
      ]_vars

\* C10 witness: a ws_id that had received a message and was disconnected has
\* been connected again.
C10_Witness ==
    /\ ret.op = "connect"
    /\ ret.replaced # None
    /\ ret.replaced[1].status = "disconnected"
    /\ ret.replaced[1].message_count >= 1
    /\ Entry(pool, ret.ws_id).message_count = 0

\* C11: connection rows are never hard-deleted: a row that is in the store,
\* in particular a disconnected one with its disconnect timestamp, is still
\* in the store after every later operation.
C11_RowsNeverDeleted ==
    [][ \A r \in connections :
           \E r2 \in connections' :
              /\ r2.id = r.id
              /\ r2.ws_id = r.ws_id
              /\ r.status = "disconnected" =>
                    (r2.status = "disconnected" /\ r2.disconnected_at = r.disconnected_at)
      ]_vars

\* C12: message_history(ws_id, limit) returns exactly the min(limit, k) most
\* recently sent of the k messages whose sender_id or recipient_id is ws_id
\* (of all messages when no ws_id is given), newest first: a message sent
\* later never comes after one sent earlier; and it changes no state.
\* messages holds the rows in the order they were sent.
C12_Relevant(who) ==
    {i \in DOMAIN messages :
        who # None => (messages[i].recipient_id = who \/ messages[i].sender_id = who)}
C12_WitnessAll ==
    /\ ret.op = "history" /\ ret.who = None
    /\ Len(ret.rows) = 2
    /\ ret.rows[1].sent_at > ret.rows[2].sent_at

\* C13: connection_stats returns active_connections = the number of
\* connections in memory; agents = for each agent with an active connection
\* the number of its active connections (no agent with none; the values sum
\* to active_connections); total_ever_connected = the number of connections
\* in the store, which is the number of ws_ids ever connected and never less
\* than active_connections; total_messages = the number of messages ever
\* persisted.
RECURSIVE C13_Sum(_, _)
C13_Sum(f, dom) ==
    IF dom = {} THEN 0
    ELSE LET a == CHOOSE x \in dom : TRUE IN f[a] + C13_Sum(f, dom \ {a})
C13_Stats ==
    [][ /\ ret'.op = "stats" =>
             LET st == ret'.stats[1]
                 live == {i \in DOMAIN pool : TRUE}
             IN /\ st.active_connections = Cardinality(PoolKeys(pool))
                /\ DOMAIN st.agents = {pool[i].agent : i \in live}
                /\ \A a \in DOMAIN st.agents :
                      /\ st.agents[a] = Cardinality({i \in live : pool[i].agent = a})
                      /\ st.agents[a] >= 1
                /\ C13_Sum(st.agents, DOMAIN st.agents) = st.active_connections
                /\ st.total_ever_connected = Cardinality(StoredIds(connections))
                /\ st.total_ever_connected >= st.active_connections
                /\ st.total_messages = Cardinality(DOMAIN messages)
                /\ UNCHANGED <<pool, connections, seq_connections, messages, heartbeat_log>>
        /\ StoredIds(connections') =
               StoredIds(connections) \cup
                   (IF ret'.op = "connect" THEN {ret'.ws_id} ELSE {})
        /\ Len(messages') >= Len(messages)
        /\ SubSeq(messages', 1, Len(messages)) = messages
      ]_vars

\* C13 witness: stats taken with one active connection, one disconnected
\* connection of the same agent and one message.
C13_Witness ==
    /\ ret.op = "stats"
    /\ ret.stats[1].active_connections = 1
    /\ ret.stats[1].total_ever_connected = 2
    /\ ret.stats[1].total_messages >= 1
    /\ \A r \in connections : r.agent = pool[1].agent
    /\ ret.stats[1].agents[pool[1].agent] = 1

\* C14: update_heartbeat on a ws_id that is not active returns failure and
\* changes nothing; on an active ws_id it returns success, sets
\* last_heartbeat to the current time in memory and in the store, appends
\* exactly one heartbeat-log row for that ws_id, and leaves the connection's
\* other fields and every other connection unchanged.
C14_UpdateHeartbeat ==
    [][ ret'.op = "heartbeat" =>
          LET w == ret'.ws_id
          IN IF w \notin PoolKeys(pool)
             THEN /\ ~ret'.ok
                  /\ UNCHANGED <<pool, connections, seq_connections, messages,
                                 heartbeat_log>>
             ELSE /\ ret'.ok
                  /\ Entry(pool', w) =
                         [Entry(pool, w) EXCEPT !.last_heartbeat = isoformat(now')]
                  /\ RowIn(connections', w) =
                         [RowIn(connections, w) EXCEPT !.last_heartbeat = isoformat(now')]
                  /\ Len(heartbeat_log') = Len(heartbeat_log) + 1
                  /\ SubSeq(heartbeat_log', 1, Len(heartbeat_log)) = heartbeat_log
                  /\ heartbeat_log'[Len(heartbeat_log')].ws_id = w
                  /\ heartbeat_log'[Len(heartbeat_log')].latency_ms \in Latencies
                  /\ PoolKeys(pool') = PoolKeys(pool)
                  /\ \A v \in PoolKeys(pool) \ {w} : get(pool', v) = get(pool, v)
                  /\ OtherRows(connections', w) = OtherRows(connections, w)
                  /\ UNCHANGED <<seq_connections, messages>>
      ]_vars

\* C14 witness: a heartbeat has succeeded, later than its connect, for a
\* connection that has received a message, with another row in the store.
C14_Witness ==
    /\ ret.op = "heartbeat" /\ ret.ok
    /\ Len(heartbeat_log) = 1
    /\ Entry(pool, ret.ws_id).last_heartbeat # Entry(pool, ret.ws_id).connected_at
    /\ Entry(pool, ret.ws_id).message_count >= 1
    /\ Cardinality(connections) = 2

\* C14 witness, absent case: a heartbeat for a disconnected ws_id has failed.
C14_WitnessAbsent ==
    /\ ret.op = "heartbeat" /\ ~ret.ok
    /\ \E r \in connections : r.ws_id = ret.ws_id /\ r.status = "disconnected"

\* C15 (as claimed): heartbeat_check never times out a connection whose
\* last_heartbeat cannot be parsed: for every timeout it is reported active
\* and get still returns it.
C15_Unparsable(p) ==
    {w \in PoolKeys(p) : ~fromisoformat_ok(Entry(p, w).last_heartbeat)}
C15_NeverTimedOut ==
    [][ ret'.op = "heartbeat_check" =>
          \A w \in C15_Unparsable(pool) :
             /\ w \in SeqToSet(ret'.active)
             /\ w \notin SeqToSet(ret'.timed_out)
             /\ get(pool', w) = get(pool, w)
             /\ RowIn(connections', w) = RowIn(connections, w)
      ]_vars

\* C15 (amended): for every timeout >= 0, heartbeat_check reports a
\* connection whose last_heartbeat cannot be parsed as active and get still
\* returns it.
C15_NotTimedOutNonNegative ==
    [][ (ret'.op = "heartbeat_check" /\ ret'.timeout >= 0) =>
          \A w \in C15_Unparsable(pool) :
             /\ w \in SeqToSet(ret'.active)
             /\ w \notin SeqToSet(ret'.timed_out)
             /\ get(pool', w) = get(pool, w)
             /\ RowIn(connections', w) = RowIn(connections, w)
      ]_vars

\* C15 witness: a sweep with timeout 0 has kept a connection with an
\* unparsable last_heartbeat and timed out a parsable one added no earlier.
C15_Witness ==
    /\ ret.op = "heartbeat_check" /\ ret.timeout = 0
    /\ Len(ret.timed_out) = 1
    /\ Len(pool) = 1
    /\ pool[1].last_heartbeat = Malformed
    /\ fromisoformat(pool[1].connected_at) < now
    /\ ret.active = <<pool[1].ws_id>>

\* C16 (as claimed): for every ws_id the message_count recorded in memory
\* and in the store never decreases, whatever the operation (a repeat
\* connect with the same ws_id included), and it increases only through a
\* send or broadcast that targets the ws_id.
C16_Targeted(r, w) ==
    \/ r.op = "send" /\ r.ok /\ r.ws_id = w
    \/ r.op = "broadcast" /\ w \in SeqToSet(r.delivered_to)
C16_Monotonic ==
    [][ \A w \in StoredIds(connections) :
           LET old == RowIn(connections, w).message_count
               new == RowIn(connections', w).message_count
           IN /\ w \in StoredIds(connections')
              /\ new >= old
              /\ new > old => C16_Targeted(ret', w)
              /\ (w \in PoolKeys(pool) /\ w \in PoolKeys(pool')) =>
                    /\ Entry(pool', w).message_count >= Entry(pool, w).message_count
                    /\ Entry(pool', w).message_count > Entry(pool, w).message_count
                          => C16_Targeted(ret', w)
      ]_vars

\* C16 (amended): a connect with a ws_id replaces its record and sets
\* message_count to 0; in every other step the message_count of a ws_id, in
\* memory and in the store, does not decrease, and it increases, by exactly
\* 1, only through a send or broadcast that targets the ws_id.
C16_MonotonicBetweenConnects ==
    [][ \A w \in StoredIds(connections) :
           LET old == RowIn(connections, w).message_count
               new == RowIn(connections', w).message_count
           IN /\ w \in StoredIds(connections')
              /\ IF ret'.op = "connect" /\ ret'.ws_id = w
                 THEN new = 0 /\ Entry(pool', w).message_count = 0
                 ELSE /\ new >= old
                      /\ new > old => (C16_Targeted(ret', w) /\ new = old + 1)
                      /\ C16_Targeted(ret', w) => new = old + 1
                      /\ (w \in PoolKeys(pool) /\ w \in PoolKeys(pool')) =>
                            Entry(pool', w).message_count - Entry(pool, w).message_count
                               = new - old
      ]_vars

\* C16 witness: a repeat connect has replaced an active connection that had
\* received a message; its message_count is 0 again.
C16_Witness ==
    /\ ret.op = "connect"
    /\ ret.replaced # None
    /\ ret.replaced[1].status = "active"
    /\ ret.replaced[1].message_count >= 1
    /\ RowIn(connections, ret.ws_id).message_count = 0

\* C17 (as claimed): a registry constructed over the store holds the same
\* ws_ids as the registry that performed the operations and, per ws_id, an
\* equal connection (agent, metadata, connected_at, last_heartbeat, status,
\* message_count, db_id); nothing disconnected or timed out is loaded.
C17_ReloadEqual ==
    [][ ret'.op = "restart" =>
           /\ PoolKeys(pool') = PoolKeys(pool)
           /\ \A w \in PoolKeys(pool) : Entry(pool', w) = Entry(pool, w)
           /\ \A w \in PoolKeys(pool') : RowIn(connections, w).status = "active"
      ]_vars

\* The same comparison with the metadata of the old registry passed through
\* json.dumps and json.loads first.
C17_ReloadEqualUpToJson ==
    [][ ret'.op = "restart" =>
           /\ PoolKeys(pool') = PoolKeys(pool)
           /\ \A w \in PoolKeys(pool) :
                 Entry(pool', w) =
                    [Entry(pool, w) EXCEPT !.metadata = json_loads(json_dumps(@))]
           /\ \A w \in PoolKeys(pool') : RowIn(connections, w).status = "active"
      ]_vars

\* A registry has been constructed over a store that holds an active and a
\* disconnected connection.
C17_Witness ==
    /\ ret.op = "restart"
    /\ pool # <<>>
    /\ \E r \in connections : r.status = "disconnected"

\* C18: when send or broadcast stops after any number of its statements, the
\* committed store holds, for every ws_id, as many new message rows addressed
\* to it as its stored message_count has grown by (a message row and its +1
\* come together or not at all), and the targets whose statements were all
\* executed have their message row and their +1 committed.
C18_NewRows(w) ==
    Cardinality({i \in DOMAIN messages' : i > Len(messages) /\
                                          messages'[i].recipient_id = Some(w)})
C18_Completed ==
    IF ret'.op = "crash_send"
    THEN IF ret'.point >= UnitLen THEN <<ret'.ws_id>> ELSE <<>>
    ELSE LET ids == [i \in DOMAIN pool |-> pool[i].ws_id]
         IN SubSeq(ids, 1, ret'.point \div UnitLen)
C18_OneUnit ==
    [][ ret'.op \in {"crash_send", "crash_broadcast"} =>
           /\ Len(messages') >= Len(messages)
           /\ SubSeq(messages', 1, Len(messages)) = messages
           /\ StoredIds(connections') = StoredIds(connections)
           /\ \A w \in StoredIds(connections) :
                 RowIn(connections', w).message_count =
                    RowIn(connections, w).message_count + C18_NewRows(w)
           /\ \A w \in WsIds \ StoredIds(connections) : C18_NewRows(w) = 0
           /\ [i \in 1 .. Len(messages') - Len(messages) |->
                  messages'[Len(messages) + i].recipient_id]
                 = [i \in DOMAIN C18_Completed |-> Some(C18_Completed[i])]
      ]_vars

\* C18 witness: a broadcast to two connections has stopped inside the
\* statements of its second target, after that target's INSERT; the first
\* target's message is in the store.
C18_Witness ==
    /\ ret.op = "crash_broadcast"
    /\ ret.point > UnitLen
    /\ ret.point < 2 * UnitLen
    /\ Len(pool) = 2
    /\ Len(messages) = 1

\* C19: when update_heartbeat stops after any number of its statements, the
\* committed store holds the new heartbeat_log row only together with the
\* new last_heartbeat of that ws_id, and the new last_heartbeat only
\* together with the log row.
C19_OneUnit ==
    [][ ret'.op = "crash_heartbeat" =>
           LET w == ret'.ws_id
           IN /\ OtherRows(connections', w) = OtherRows(connections, w)
              /\ \/ /\ heartbeat_log' = heartbeat_log
                    /\ connections' = connections
                 \/ /\ Len(heartbeat_log') = Len(heartbeat_log) + 1
                    /\ SubSeq(heartbeat_log', 1, Len(heartbeat_log)) = heartbeat_log
                    /\ heartbeat_log'[Len(heartbeat_log')].ws_id = w
                    /\ RowIn(connections', w) =
                          [RowIn(connections, w) EXCEPT !.last_heartbeat = isoformat(now')]
      ]_vars

\* C19 witness: update_heartbeat has stopped after its INSERT into
\* heartbeat_log and before its commit, at a time later than the stored
\* last_heartbeat; the store holds neither write.
C19_Witness ==
    /\ ret.op = "crash_heartbeat"
    /\ ret.point = 3
    /\ heartbeat_log = <<>>
    /\ RowIn(connections, ret.ws_id).last_heartbeat # isoformat(now)

\* C20 (as claimed): when the store write of add, remove, update_heartbeat or
\* increment_message_count fails, the in-memory mapping is exactly what it
\* was before the call and the store is unchanged, so memory and store,
\* consistent before the call, are consistent after it (same active ws_ids,
\* last_heartbeat and message_count).
C20_FailOps == {"fail_add", "fail_remove", "fail_heartbeat", "fail_increment"}
C20_Consistent(p, conns) ==
    /\ PoolKeys(p) = {r.ws_id : r \in {q \in conns : q.status = "active"}}
    /\ \A w \in PoolKeys(p) :
          /\ Entry(p, w).last_heartbeat = RowIn(conns, w).last_heartbeat
          /\ Entry(p, w).message_count = RowIn(conns, w).message_count
C20_FailureKeepsMemory ==
    [][ ret'.op \in C20_FailOps =>
           /\ pool' = pool
           /\ connections' = connections
           /\ C20_Consistent(pool, connections) => C20_Consistent(pool', connections')
      ]_vars

\* The part of C20 that add and remove satisfy.
C20_AddRemoveKeepMemory ==
    [][ ret'.op \in {"fail_add", "fail_remove"} =>
           /\ pool' = pool
           /\ connections' = connections
      ]_vars

\* A failed update_heartbeat has left memory and store apart.
C20_Witness ==
    /\ ret.op = "fail_heartbeat"
    /\ ~ C20_Consistent(pool, connections)

\* C21: heartbeat_check partitions the active set: the returned active and
\* timed_out lists are disjoint and free of duplicates and together hold
\* exactly the ws_ids of the pool before the sweep; after the sweep the
\* active ws_ids, in memory and in the store, are exactly the returned active
\* list; the sweep adds no message row and changes no connection's
\* message_count or last_heartbeat.
C21_ActiveRows(conns) == {r.ws_id : r \in {q \in conns : q.status = "active"}}
C21_Partition ==
    [][ ret'.op = "heartbeat_check" =>
           LET A == SeqToSet(ret'.active)
               T == SeqToSet(ret'.timed_out)
           IN /\ A \cap T = {}
              /\ Cardinality(A) = Len(ret'.active)
              /\ Cardinality(T) = Len(ret'.timed_out)
              /\ A \cup T = PoolKeys(pool)
              /\ A \cup T = C21_ActiveRows(connections)
              /\ PoolKeys(pool') = A
              /\ [i \in DOMAIN pool' |-> pool'[i].ws_id] = ret'.active
              /\ C21_ActiveRows(connections') = A
              /\ messages' = messages
              /\ StoredIds(connections') = StoredIds(connections)
              /\ \A w \in StoredIds(connections) :
                    /\ RowIn(connections', w).message_count
                          = RowIn(connections, w).message_count
                    /\ RowIn(connections', w).last_heartbeat
                          = RowIn(connections, w).last_heartbeat
              /\ \A w \in A : Entry(pool', w) = Entry(pool, w)
      ]_vars

\* C21 witness: one sweep has timed out a connection that had received a
\* message and kept another one; the message and the counter are still in
\* the store.
C21_Witness ==
    /\ ret.op = "heartbeat_check"
    /\ Len(ret.timed_out) = 1
    /\ Len(ret.active) = 1
    /\ Len(messages) >= 1
    /\ RowIn(connections, ret.timed_out[1]).message_count >= 1
    /\ RowIn(connections, ret.timed_out[1]).status = "disconnected"

====
